---- MODULE Spec2Model ----
(***************************************************************************)
(* StorageContainerProxy: the middleware chain built by Listen             *)
(* (pkg/proxy/handler.go) in front of the storage-container reverse proxy, *)
(* and the md5 response cache (pkg/proxy/cache.go).                        *)
(*                                                                         *)
(* Strings (hosts, paths) are sequences of tokens; a token is a run of     *)
(* characters holding neither "/" nor ".", or one of the two separators.   *)
(* Requests are handled concurrently, one handler invocation per request   *)
(* slot; a slot is reused by the next request once its response is out.    *)
(***************************************************************************)
EXTENDS Integers, Sequences, FiniteSets, TLC

\* ------------------------------------------------------------------ bounds

\* number of requests handled at the same time
NReq == 2

\* the clock runs from 0 to MaxTime
MaxTime == 2

\* entryLifetime handed to NewMd5ResponseCache, in clock ticks
EntryLifetime == 1

\* the longest path, in tokens, handed to joinURLPath on its own
MaxLen == 3

\* the most values one header of a capture buffer holds
MaxVals == 2

\* ----------------------------------------------------------------- strings

Slash == "/"
Dot == "."

\* strings.HasSuffix
HasSuffix(s, suf) ==
    /\ Len(suf) <= Len(s)
    /\ SubSeq(s, Len(s) - Len(suf) + 1, Len(s)) = suf

\* strings.HasPrefix
HasPrefix(s, pre) ==
    /\ Len(pre) <= Len(s)
    /\ SubSeq(s, 1, Len(pre)) = pre

\* strings.Count for a one-token separator
Count(s, tok) == Cardinality({i \in 1..Len(s) : s[i] = tok})

\* strings.Contains for a one-token separator
Contains(s, tok) == \E i \in 1..Len(s) : s[i] = tok

\* strings.Index for a one-token separator: 0-based, -1 when absent
Index(s, tok) ==
    IF Contains(s, tok)
    THEN (CHOOSE i \in 1..Len(s) : s[i] = tok /\ \A j \in 1..(i-1) : s[j] # tok) - 1
    ELSE -1

\* strings.LastIndex for a one-token separator: 0-based, -1 when absent
LastIndex(s, tok) ==
    IF Contains(s, tok)
    THEN (CHOOSE i \in 1..Len(s) : s[i] = tok /\ \A j \in (i+1)..Len(s) : s[j] # tok) - 1
    ELSE -1

\* strings.TrimSuffix
TrimSuffix(s, suf) ==
    IF HasSuffix(s, suf) THEN SubSeq(s, 1, Len(s) - Len(suf)) ELSE s

\* filepath.Ext: the suffix beginning at the final dot in the final
\* slash-separated element of path; empty if there is no dot
Ext(path) ==
    LET dots == {i \in 1..Len(path) :
                    /\ path[i] = Dot
                    /\ \A j \in i..Len(path) : path[j] # Slash}
    IN IF dots = {} THEN << >>
       ELSE LET i == CHOOSE d \in dots : \A e \in dots : e <= d
            IN SubSeq(path, i, Len(path))

\* the case of two slashes without b[1:]
singleJoiningSlashKeepsBoth(a, b) ==
    LET aslash == HasSuffix(a, <<Slash>>)
        bslash == HasPrefix(b, <<Slash>>)
    IN IF ~aslash /\ ~bslash THEN a \o <<Slash>> \o b
       ELSE a \o b

\* nothing joined when both paths are empty
singleJoiningSlashEmptyForEmpty(a, b) ==
    LET aslash == HasSuffix(a, <<Slash>>)
        bslash == HasPrefix(b, <<Slash>>)
    IN IF a = << >> /\ b = << >> THEN << >>
       ELSE IF aslash /\ bslash THEN a \o Tail(b)
       ELSE IF ~aslash /\ ~bslash THEN a \o <<Slash>> \o b
       ELSE a \o b

singleJoiningSlash(a, b) ==
    LET aslash == HasSuffix(a, <<Slash>>)
        bslash == HasPrefix(b, <<Slash>>)
    IN IF aslash /\ bslash THEN a \o Tail(b)
       ELSE IF ~aslash /\ ~bslash THEN a \o <<Slash>> \o b
       ELSE a \o b

\* joinURLPath for URLs without escaped segments (RawPath = ""): the path
joinURLPath(a, b) == singleJoiningSlash(a, b)

\* ----------------------------------------------------------- configuration

\* Config.BaseDomain
BaseDomain == <<"example", Dot, "com">>

\* Config.DefaultEnv (the flag's default)
DefaultEnv == <<"master">>

\* Target.Path: "/" + AzureStorageContainer
TargetPath == <<Slash, "web">>

IndexHtml == <<Slash, "index", Dot, "html">>
DotHtml == <<Dot, "html">>

\* the middlewares in the order Listen installs them (the first is the
\* outermost) and the handler they end in
Listen == <<"subdomain", "md5cache", "trailing", "html", "index", "proxy">>

\* the stage next.ServeHTTP enters from stage s
NextStage(s) ==
    LET i == CHOOSE k \in 1..Len(Listen) : Listen[k] = s
    IN Listen[i + 1]

\* ------------------------------------------------------------- environment

Reqs == 1..NReq
Methods == {"GET", "HEAD"}

\* what clients ask for: a page without its extension and the page itself
\* (on the port the proxy listens on)
Requests ==
    { [method |-> "GET", host |-> BaseDomain, path |-> <<Slash, "foo">>],
      [method |-> "GET", host |-> BaseDomain \o <<":", "3000">>,
       path |-> <<Slash, "foo", Dot, "html">>] }

\* the same, and a HEAD of the page
StoreRequests ==
    Requests \cup { [method |-> "HEAD", host |-> BaseDomain,
                     path |-> <<Slash, "foo", Dot, "html">>] }

\* the backend paths that may hold an object: the page, in the container's
\* directory of the default environment
ObjPaths ==
    { joinURLPath(TargetPath, <<Slash>> \o DefaultEnv \o <<Slash, "foo", Dot, "html">>) }

\* a blob of the container: its body and the Content-Md5 values the backend
\* sends with it (one for a regular blob)
Absent == [exists |-> FALSE, md5 |-> << >>, body |-> "none"]
Blobs == { [exists |-> TRUE, md5 |-> <<"m1">>, body |-> "b1"],
           [exists |-> TRUE, md5 |-> <<"m2">>, body |-> "b2"] }
OddBlobs == { [exists |-> TRUE, md5 |-> << >>, body |-> "b3"],
              [exists |-> TRUE, md5 |-> <<"m1", "m2">>, body |-> "b4"] }
Objects == {Absent} \cup Blobs
StoreObjects == Objects \cup OddBlobs

\* ------------------------------------------------------------------- state

VARIABLES
    cache,      \* ResponseCache.cache: method -> (path -> *CachedResponse)
    backend,    \* the container: backend path -> object
    now,        \* time.Now()
    req,        \* the requests being handled, one per slot
    crashed,    \* the process died of a fatal runtime error
    joined,     \* a call of joinURLPath: its arguments and its result
    dest,       \* a call of WriteTo: the capture buffer and the writer it flushes to
    outbound    \* a call of the director: the target, the request and the outbound request

vars == <<cache, backend, now, req, crashed, joined, dest, outbound>>

\* a nil pointer, a nil map
Nil == [nil |-> TRUE]

\* make(map[string]*CachedResponse)
EmptyMap == << >>

\* m[k] of a Go map: nil for a key that is not there
MapGet(m, k) == IF k \in DOMAIN m THEN m[k] ELSE Nil

\* m[k] = v
MapSet(m, k, v) == [x \in (DOMAIN m) \cup {k} |-> IF x = k THEN v ELSE m[x]]

\* NewCachedResponseWriter
NewCachedResponseWriter == [status |-> 200, md5 |-> << >>, body |-> ""]

\* res.WriteHeader(code) on a writer nothing else was written to
WriteHeader(w, code) == [w EXCEPT !.status = code]

\* c.cache[method]: made is FALSE while it is the nil map
NilMap == [made |-> FALSE, map |-> EmptyMap]
MakeMap == [made |-> TRUE, map |-> EmptyMap]

\* NewMd5ResponseCache
NewMd5ResponseCache == [m \in Methods |-> NilMap]

\* a request slot: pc is where its handler stands; method, host and uri are
\* the request as received and path is req.URL.Path, which the middlewares
\* rewrite; key is the key cache.get was called with, r the entry it found,
\* attached whether the map still holds r, probe what CheckUrlMD5 returned
\* to it, served how get ended; wrapped tells that the ResponseWriter of the
\* stage is Md5Cache's innerRes, inner; putkey is the key cache.put was
\* called with; out is what the handler wrote to the client's
\* ResponseWriter; heads and gets count the HEAD and other requests sent to
\* the backend; tried lists the fallbacks that probed their candidate and
\* what they found, failed tells that a CheckUrlExists returned an error;
\* conn is the client's connection and flush what became of the write of the
\* response to it ("dropped": the write failed and its error was discarded)
IdleReq == [pc |-> "idle", method |-> "GET", host |-> << >>, uri |-> << >>,
            path |-> << >>,
            key |-> << >>, r |-> Nil, attached |-> FALSE, probe |-> Nil,
            served |-> "none",
            wrapped |-> FALSE, inner |-> Nil, out |-> Nil,
            putkey |-> << >>, heads |-> 0, gets |-> 0,
            tried |-> << >>, failed |-> FALSE,
            conn |-> "open", flush |-> "none"]

Init ==
    /\ cache = NewMd5ResponseCache
    /\ backend = [p \in ObjPaths |-> Absent]
    /\ now = 0
    /\ req = [r \in Reqs |-> IdleReq]
    /\ crashed = FALSE
    /\ joined = Nil
    /\ dest = Nil
    /\ outbound = Nil

\* ----------------------------------------------------------------- backend

\* the object a backend URL path names
ObjectAt(bp) == IF bp \in DOMAIN backend THEN backend[bp] ELSE Absent

\* CheckUrlExists: the outcomes of a HEAD of backend path bp: the status, or
\* an error of the transport
CheckUrlExists(bp) ==
    { [err |-> TRUE, status |-> -1],
      [err |-> FALSE, status |-> IF ObjectAt(bp).exists THEN 200 ELSE 404] }

\* CheckUrlMD5: the outcomes of a HEAD of backend path bp: the one Content-Md5
\* value, or an error (of the transport, or "no md5 present")
CheckUrlMD5(bp) ==
    { [err |-> TRUE, md5 |-> ""],
      IF Len(ObjectAt(bp).md5) # 1
      THEN [err |-> TRUE, md5 |-> ""]
      ELSE [err |-> FALSE, md5 |-> ObjectAt(bp).md5[1]] }

\* what the reverse proxy writes to its ResponseWriter for a request of
\* backend path bp: the blob with its headers (without its body for a HEAD),
\* the backend's 404, or 502 when the transport fails
ProxyResponses(method, bp) ==
    { [status |-> 502, md5 |-> << >>, body |-> ""],
      IF ObjectAt(bp).exists
      THEN [status |-> 200, md5 |-> ObjectAt(bp).md5,
            body |-> IF method = "HEAD" THEN "" ELSE ObjectAt(bp).body]
      ELSE [status |-> 404, md5 |-> << >>,
            body |-> IF method = "HEAD" THEN "" ELSE "notfound"] }

\* ------------------------------------------------------------------- cache

\* the comparison turned round
IsFreshFlipped(e, t) == t - e.checked > EntryLifetime

\* time.Now().Sub(r.checked) < c.entryLifetime
IsFresh(e, t) == t - e.checked < EntryLifetime

\* get that leaves r.checked alone when the checksums match
RevalidateNoRefresh(e, probe) ==
    IF probe.err
    THEN [returns |-> "value", invalidate |-> FALSE, refresh |-> FALSE]
    ELSE IF e.md5 # probe.md5
    THEN [returns |-> "nil", invalidate |-> TRUE, refresh |-> FALSE]
    ELSE [returns |-> "value", invalidate |-> FALSE, refresh |-> FALSE]

\* get that reports the miss and leaves the entry in the map when the
\* checksums differ
RevalidateKeepOnMismatch(e, probe) ==
    IF probe.err
    THEN [returns |-> "value", invalidate |-> FALSE, refresh |-> FALSE]
    ELSE IF e.md5 # probe.md5
    THEN [returns |-> "nil", invalidate |-> FALSE, refresh |-> FALSE]
    ELSE [returns |-> "value", invalidate |-> FALSE, refresh |-> TRUE]

\* get that returns nil when CheckUrlMD5 fails
RevalidateMissOnError(e, probe) ==
    IF probe.err
    THEN [returns |-> "nil", invalidate |-> FALSE, refresh |-> FALSE]
    ELSE IF e.md5 # probe.md5
    THEN [returns |-> "nil", invalidate |-> TRUE, refresh |-> FALSE]
    ELSE [returns |-> "value", invalidate |-> FALSE, refresh |-> TRUE]

\* ResponseCache.get from the answer of CheckUrlMD5 on: what it returns for
\* entry e ("value": e.value, "nil": a miss) and what it does to the entry
Revalidate(e, probe) ==
    IF probe.err
    THEN [returns |-> "value", invalidate |-> FALSE, refresh |-> FALSE]
    ELSE IF e.md5 # probe.md5
    THEN [returns |-> "nil", invalidate |-> TRUE, refresh |-> FALSE]
    ELSE [returns |-> "value", invalidate |-> FALSE, refresh |-> TRUE]

\* the key a request has in the cache when get or put is called: the path of
\* its URL at that moment
CacheKey(r) == req[r].path

\* the backend URL path CheckUrlMD5 probes for a key
ProbePath(key) == joinURLPath(TargetPath, key)

\* ResponseCache.put: the cache after put(method, key, w)
put(c, method, key, w, t) ==
    LET c1 == IF ~c[method].made THEN [c EXCEPT ![method] = MakeMap] ELSE c
    IN IF Len(w.md5) # 1
       THEN c1
       ELSE [c1 EXCEPT ![method].map =
                MapSet(@, key, [md5 |-> w.md5[1], value |-> w, checked |-> t])]

\* the requests whose get holds a pointer to the entry of (method, key)
\* while their probe is out
Holders(method, key) ==
    {q \in Reqs : /\ req[q].pc = "md5probe"
                  /\ req[q].method = method
                  /\ req[q].key = key
                  /\ req[q].attached}

\* the map slot of (method, key) was assigned: the pointers held are no
\* longer the slot's
Detach(rq, method, key) ==
    [q \in Reqs |-> IF q \in Holders(method, key)
                    THEN [rq[q] EXCEPT !.attached = FALSE]
                    ELSE rq[q]]

\* ---------------------------------------------------------------- handlers

\* the handler returned to the server: its locals are gone
Done(rec, w) ==
    [rec EXCEPT !.out = w, !.pc = "done", !.r = Nil, !.attached = FALSE,
                !.inner = Nil, !.wrapped = FALSE,
                !.flush = IF rec.conn = "broken" THEN "dropped" ELSE "ok"]

\* a handler wrote w to its ResponseWriter and returned: inside Md5Cache the
\* writer is innerRes and Md5Cache goes on; outside it is the client's
Respond(rec, w) ==
    IF rec.wrapped
    THEN [rec EXCEPT !.inner = w, !.pc = "md5put"]
    ELSE Done(rec, w)

\* return without res.WriteHeader(500)
Respond500NoHeader(rec) == Respond(rec, NewCachedResponseWriter)

\* res.WriteHeader(500); return
Respond500(rec) == Respond(rec, WriteHeader(NewCachedResponseWriter, 500))

\* req.Host without its port
StripPort(h) == IF Contains(h, ":") THEN SubSeq(h, 1, Index(h, ":")) ELSE h

\* the path of the default environment kept without the request's path
RouteDropsPath(h, p) ==
    LET domainDotCount == Count(BaseDomain, Dot)
        host == StripPort(h)
        hostDotCount == Count(host, Dot)
    IN IF ~HasSuffix(host, BaseDomain)
       THEN [forward |-> FALSE, path |-> p]
       ELSE IF hostDotCount = domainDotCount
       THEN [forward |-> TRUE, path |-> <<Slash>> \o DefaultEnv]
       ELSE IF hostDotCount = domainDotCount + 1
       THEN [forward |-> TRUE, path |-> TrimSuffix(host, BaseDomain)]
       ELSE [forward |-> FALSE, path |-> p]

\* a host with too many labels taken for a subdomain
RouteForwardsAll(h, p) ==
    LET domainDotCount == Count(BaseDomain, Dot)
        host == StripPort(h)
        hostDotCount == Count(host, Dot)
    IN IF ~HasSuffix(host, BaseDomain)
       THEN [forward |-> FALSE, path |-> p]
       ELSE IF hostDotCount = domainDotCount
       THEN [forward |-> TRUE, path |-> <<Slash>> \o DefaultEnv \o p]
       ELSE [forward |-> TRUE, path |-> TrimSuffix(host, BaseDomain)]

\* what SubdomainAsSubpath decides for host h and path p: whether it calls
\* next.ServeHTTP, and req.URL.Path when it does
Route(h, p) ==
    LET domainDotCount == Count(BaseDomain, Dot)
        host == StripPort(h)
        hostDotCount == Count(host, Dot)
    IN IF ~HasSuffix(host, BaseDomain)
       THEN [forward |-> FALSE, path |-> p]
       ELSE IF hostDotCount = domainDotCount
       THEN [forward |-> TRUE, path |-> <<Slash>> \o DefaultEnv \o p]
       ELSE IF hostDotCount = domainDotCount + 1
       THEN [forward |-> TRUE, path |-> TrimSuffix(host, BaseDomain)]
       ELSE [forward |-> FALSE, path |-> p]

\* a request arrives and SubdomainAsSubpath, the outermost handler, runs
SubdomainAsSubpath(r, method, h, p) ==
    /\ ~crashed
    /\ req[r].pc \in {"idle", "done", "panicked"}
    /\   LET rec == [IdleReq EXCEPT !.method = method, !.host = h, !.uri = p,
                                    !.path = p]
             to == Route(h, p)
         IN req' = [req EXCEPT ![r] =
              IF to.forward
              THEN [rec EXCEPT !.path = to.path,
                               !.pc = NextStage("subdomain")]
              ELSE Respond500(rec)]
    /\ UNCHANGED <<cache, backend, now, crashed, joined, dest, outbound>>

\* Md5Cache up to the return of cache.get, or to the HEAD get sends for an
\* entry that is not fresh
Md5CacheGet(r) ==
    /\ ~crashed
    /\ req[r].pc = "md5cache"
    /\ LET method == req[r].method
           key == CacheKey(r)
           e == MapGet(cache[method].map, key)
           miss == [req[r] EXCEPT !.key = key, !.served = "miss",
                                  !.wrapped = TRUE,
                                  !.inner = NewCachedResponseWriter,
                                  !.pc = NextStage("md5cache")]
       IN IF method # "GET"
          THEN /\ req' = [req EXCEPT ![r] = miss]
               /\ cache' = cache
          ELSE IF ~cache[method].made
          THEN /\ req' = [req EXCEPT ![r] = miss]
               /\ cache' = [cache EXCEPT ![method] = MakeMap]
          ELSE IF e = Nil
          THEN /\ req' = [req EXCEPT ![r] = miss]
               /\ cache' = cache
          ELSE IF IsFresh(e, now)
          THEN /\ req' = [req EXCEPT ![r] =
                            Done([@ EXCEPT !.key = key, !.served = "fresh"],
                                 e.value)]
               /\ cache' = cache
          ELSE /\ req' = [req EXCEPT ![r] =
                            [@ EXCEPT !.key = key, !.r = e, !.attached = TRUE,
                                      !.heads = @ + 1, !.pc = "md5probe"]]
               /\ cache' = cache
    /\ UNCHANGED <<backend, now, crashed, joined, dest, outbound>>

\* the rest of cache.get once the HEAD of CheckUrlMD5 is answered, and what
\* Md5Cache does with its result
Md5CacheRevalidate(r) ==
    /\ ~crashed
    /\ req[r].pc = "md5probe"
    /\ \E probe \in CheckUrlMD5(ProbePath(req[r].key)) :
         LET method == req[r].method
             key == req[r].key
             e == req[r].r
             todo == Revalidate(e, probe)
             rec == [req[r] EXCEPT !.probe = probe]
             rq == IF todo.invalidate THEN Detach(req, method, key) ELSE req
         IN /\ cache' =
                 IF todo.invalidate
                 THEN [cache EXCEPT ![method].map = MapSet(@, key, Nil)]
                 ELSE IF todo.refresh /\ req[r].attached
                 THEN [cache EXCEPT ![method].map[key].checked = now]
                 ELSE cache
            /\ req' = [rq EXCEPT ![r] =
                 IF todo.returns = "value"
                 THEN Done([rec EXCEPT !.served =
                               IF todo.refresh THEN "revalidated" ELSE "unchecked"],
                           e.value)
                 ELSE [rec EXCEPT !.served = "miss", !.attached = FALSE,
                                  !.r = Nil, !.wrapped = TRUE,
                                  !.inner = NewCachedResponseWriter,
                                  !.pc = NextStage("md5cache")]]
    /\ UNCHANGED <<backend, now, crashed, joined, dest, outbound>>

\* Md5Cache after next.ServeHTTP(innerRes, req) returned: cache.put and
\* innerRes.WriteTo(res)
Md5CachePut(r) ==
    /\ ~crashed
    /\ req[r].pc = "md5put"
    /\ LET method == req[r].method
           key == CacheKey(r)
           w == req[r].inner
       IN /\ cache' = put(cache, method, key, w, now)
          /\ req' = [(IF Len(w.md5) = 1 THEN Detach(req, method, key) ELSE req)
                        EXCEPT ![r] = Done([req[r] EXCEPT !.putkey = key], w)]
    /\ UNCHANGED <<backend, now, crashed, joined, dest, outbound>>

\* the test of the trailing "/" without its negation
NeedsFallbackOnSlash(status, path) ==
    /\ status = 404
    /\ HasSuffix(path, <<Slash>>)
    /\ Ext(path) = << >>

\* the condition turned round: paths that have an extension
NeedsFallbackWithExt(status, path) ==
    /\ status = 404
    /\ ~HasSuffix(path, <<Slash>>)
    /\ Ext(path) # << >>

\* the object is reported missing, and the path neither ends in "/" nor has
\* an extension: the fallback probes its candidate
NeedsFallback(status, path) ==
    /\ status = 404
    /\ ~HasSuffix(path, <<Slash>>)
    /\ Ext(path) = << >>

\* AddTrailingSlashIfNoExtensionAndNotFound
AddTrailingSlashIfNoExtensionAndNotFound(r) ==
    /\ ~crashed
    /\ req[r].pc = "trailing"
    /\ LET path == req[r].path
           urlCopy == joinURLPath(TargetPath, path)
       IN \E first \in CheckUrlExists(urlCopy) :
            IF first.err
            THEN req' = [req EXCEPT ![r] =
                           Respond500([@ EXCEPT !.heads = @ + 1,
                                                !.failed = TRUE])]
            ELSE IF NeedsFallback(first.status, path)
            THEN \E second \in CheckUrlExists(urlCopy \o IndexHtml) :
                   IF second.err
                   THEN req' = [req EXCEPT ![r] =
                                  Respond500([@ EXCEPT !.heads = @ + 2,
                                                       !.failed = TRUE])]
                   ELSE req' = [req EXCEPT ![r] =
                                  [@ EXCEPT !.heads = @ + 2,
                                            !.tried = Append(@,
                                                [mw |-> "trailing",
                                                 found |-> second.status # 404]),
                                            !.path = IF second.status # 404
                                                     THEN path \o IndexHtml
                                                     ELSE path,
                                            !.pc = NextStage("trailing")]]
            ELSE req' = [req EXCEPT ![r] =
                           [@ EXCEPT !.heads = @ + 1,
                                     !.pc = NextStage("trailing")]]
    /\ UNCHANGED <<cache, backend, now, crashed, joined, dest, outbound>>

\* AddHtmlIfNoExtensionAndNotFound
AddHtmlIfNoExtensionAndNotFound(r) ==
    /\ ~crashed
    /\ req[r].pc = "html"
    /\ LET path == req[r].path
           urlCopy == joinURLPath(TargetPath, path)
       IN \E first \in CheckUrlExists(urlCopy) :
            IF first.err
            THEN req' = [req EXCEPT ![r] =
                           Respond500([@ EXCEPT !.heads = @ + 1,
                                                !.failed = TRUE])]
            ELSE IF NeedsFallback(first.status, path)
            THEN \E second \in CheckUrlExists(urlCopy \o DotHtml) :
                   IF second.err
                   THEN req' = [req EXCEPT ![r] =
                                  Respond500([@ EXCEPT !.heads = @ + 2,
                                                       !.failed = TRUE])]
                   ELSE req' = [req EXCEPT ![r] =
                                  [@ EXCEPT !.heads = @ + 2,
                                            !.tried = Append(@,
                                                [mw |-> "html",
                                                 found |-> second.status # 404]),
                                            !.path = IF second.status # 404
                                                     THEN path \o DotHtml
                                                     ELSE path,
                                            !.pc = NextStage("html")]]
            ELSE req' = [req EXCEPT ![r] =
                           [@ EXCEPT !.heads = @ + 1,
                                     !.pc = NextStage("html")]]
    /\ UNCHANGED <<cache, backend, now, crashed, joined, dest, outbound>>

\* TryIndexOnNotFound; the slice path[:LastIndex(path, "/")] panics when the
\* path holds no "/"
TryIndexOnNotFound(r) ==
    /\ ~crashed
    /\ req[r].pc = "index"
    /\ LET path == req[r].path
           urlCopy == joinURLPath(TargetPath, path)
       IN \E first \in CheckUrlExists(urlCopy) :
            IF first.err
            THEN req' = [req EXCEPT ![r] =
                           Respond500([@ EXCEPT !.heads = @ + 1,
                                                !.failed = TRUE])]
            ELSE IF first.status = 404 /\ ~HasSuffix(path, IndexHtml)
            THEN IF LastIndex(path, Slash) < 0
                 THEN req' = [req EXCEPT ![r] =
                                [@ EXCEPT !.heads = @ + 1, !.pc = "panicked"]]
                 ELSE req' = [req EXCEPT ![r] =
                                [@ EXCEPT !.heads = @ + 1,
                                          !.path = SubSeq(path, 1, LastIndex(path, Slash))
                                                      \o IndexHtml,
                                          !.pc = NextStage("index")]]
            ELSE req' = [req EXCEPT ![r] =
                           [@ EXCEPT !.heads = @ + 1,
                                     !.pc = NextStage("index")]]
    /\ UNCHANGED <<cache, backend, now, crashed, joined, dest, outbound>>

\* the reverse proxy: the director joins the target's path and the
\* request's on its copy of the request, the backend answers
ReverseProxy(r) ==
    /\ ~crashed
    /\ req[r].pc = "proxy"
    /\ \E w \in ProxyResponses(req[r].method,
                                 joinURLPath(TargetPath, req[r].path)) :
         req' = [req EXCEPT ![r] = Respond([@ EXCEPT !.gets = @ + 1], w)]
    /\ UNCHANGED <<cache, backend, now, crashed, joined, dest, outbound>>

\* ------------------------------------------------------------- environment

\* the clock advances
Tick ==
    /\ ~crashed
    /\ now < MaxTime
    /\ now' = now + 1
    /\ UNCHANGED <<cache, backend, req, crashed, joined, dest, outbound>>

\* the client of request r goes away while its handler runs: what is
\* written to its ResponseWriter from now on fails
ClientGone(r) ==
    /\ ~crashed
    /\ req[r].pc \notin {"idle", "done", "panicked"}
    /\ req[r].conn = "open"
    /\ req' = [req EXCEPT ![r].conn = "broken"]
    /\ UNCHANGED <<cache, backend, now, crashed, joined, dest, outbound>>

\* a blob is uploaded, replaced or deleted
BackendChange(objects) ==
    /\ ~crashed
    /\ \E bp \in DOMAIN backend, o \in objects :
         /\ backend[bp] # o
         /\ backend' = [backend EXCEPT ![bp] = o]
    /\ UNCHANGED <<cache, now, req, crashed, joined, dest, outbound>>

\* ------------------------------------------------------------ data races

\* the next step of request r assigns to the map of maps (c.cache[method] =
\* make(...)), reads it, assigns to the map of its method, reads it
WritesTop(r) ==
    \/ req[r].pc = "md5cache" /\ req[r].method = "GET" /\ ~cache[req[r].method].made
    \/ req[r].pc = "md5put" /\ ~cache[req[r].method].made
ReadsTop(r) ==
    \/ req[r].pc = "md5cache" /\ req[r].method = "GET"
    \/ req[r].pc = "md5put"
WritesInner(r) ==
    \/ req[r].pc = "md5put" /\ Len(req[r].inner.md5) = 1
    \/ /\ req[r].pc = "md5probe"
       /\ \E probe \in CheckUrlMD5(ProbePath(req[r].key)) :
             ~probe.err /\ probe.md5 # req[r].r.md5
ReadsInner(r) ==
    req[r].pc = "md5cache" /\ req[r].method = "GET" /\ cache[req[r].method].made

\* two handlers are about to touch the same unsynchronised map, one of them
\* writing it
Race(r1, r2) ==
    /\ r1 # r2
    /\ \/ WritesTop(r1) /\ (ReadsTop(r2) \/ WritesTop(r2))
       \/ /\ req[r1].method = req[r2].method
          /\ WritesInner(r1)
          /\ (ReadsInner(r2) \/ WritesInner(r2))

\* the two accesses overlap and the runtime detects it: "fatal error:
\* concurrent map writes" (or "concurrent map read and map write") ends the
\* process; when it does not, the accesses take effect one after the other
MapRace ==
    /\ ~crashed
    /\ \E r1, r2 \in Reqs : Race(r1, r2)
    /\ crashed' = TRUE
    /\ UNCHANGED <<cache, backend, now, req, joined, dest, outbound>>

\* --------------------------------------------------------- specifications

\* requests of any method handled one after the other, against blobs with
\* any number of Content-Md5 values
Next ==
    \/ \E q \in StoreRequests : SubdomainAsSubpath(1, q.method, q.host, q.path)
    \/ Md5CacheGet(1)
    \/ Md5CacheRevalidate(1)
    \/ Md5CachePut(1)
    \/ AddTrailingSlashIfNoExtensionAndNotFound(1)
    \/ AddHtmlIfNoExtensionAndNotFound(1)
    \/ TryIndexOnNotFound(1)
    \/ ReverseProxy(1)
    \/ Tick
    \/ BackendChange(StoreObjects)

Spec == Init /\ [][Next]_vars

\* GET requests handled concurrently, each handler on its own goroutine
NextConc ==
    \/ \E r \in Reqs, q \in Requests :
          SubdomainAsSubpath(r, q.method, q.host, q.path)
    \/ \E r \in Reqs : Md5CacheGet(r)
    \/ \E r \in Reqs : Md5CacheRevalidate(r)
    \/ \E r \in Reqs : Md5CachePut(r)
    \/ \E r \in Reqs : AddTrailingSlashIfNoExtensionAndNotFound(r)
    \/ \E r \in Reqs : AddHtmlIfNoExtensionAndNotFound(r)
    \/ \E r \in Reqs : TryIndexOnNotFound(r)
    \/ \E r \in Reqs : ReverseProxy(r)
    \/ Tick
    \/ BackendChange(Objects)
    \/ MapRace

SpecConc == Init /\ [][NextConc]_vars

\* requests handled at the same time while the page is replaced once: the
\* container holds version V1 of it, which is overwritten with version V2
V1 == [exists |-> TRUE, md5 |-> <<"m1">>, body |-> "b1"]
V2 == [exists |-> TRUE, md5 |-> <<"m2">>, body |-> "b2"]

InitUpdate ==
    /\ cache = NewMd5ResponseCache
    /\ backend = [p \in ObjPaths |-> V1]
    /\ now = 0
    /\ req = [r \in Reqs |-> IdleReq]
    /\ crashed = FALSE
    /\ joined = Nil
    /\ dest = Nil
    /\ outbound = Nil

NextUpdate ==
    \/ \E r \in Reqs, q \in Requests :
          SubdomainAsSubpath(r, q.method, q.host, q.path)
    \/ \E r \in Reqs : Md5CacheGet(r)
    \/ \E r \in Reqs : Md5CacheRevalidate(r)
    \/ \E r \in Reqs : Md5CachePut(r)
    \/ \E r \in Reqs : AddTrailingSlashIfNoExtensionAndNotFound(r)
    \/ \E r \in Reqs : AddHtmlIfNoExtensionAndNotFound(r)
    \/ \E r \in Reqs : TryIndexOnNotFound(r)
    \/ \E r \in Reqs : ReverseProxy(r)
    \/ Tick
    \/ BackendChange({V2})
    \/ MapRace

SpecUpdate == InitUpdate /\ [][NextUpdate]_vars

\* one client sends the same GET again and again, each time after the
\* answer to the one before, while the container does not change
InitRepeat ==
    /\ cache = NewMd5ResponseCache
    /\ backend \in [ObjPaths -> Objects]
    /\ now = 0
    /\ req = [r \in Reqs |-> IdleReq]
    /\ crashed = FALSE
    /\ joined = Nil
    /\ dest = Nil
    /\ outbound = Nil

NextRepeat ==
    \/ \E q \in Requests :
          req[1].pc = "idle" /\ SubdomainAsSubpath(1, q.method, q.host, q.path)
    \/ \E r \in Reqs \ {1} :
          /\ req[r - 1].pc = "done"
          /\ req[r].pc = "idle"
          /\ SubdomainAsSubpath(r, req[1].method, req[1].host, req[1].uri)
    \/ \E r \in Reqs : Md5CacheGet(r)
    \/ \E r \in Reqs : Md5CacheRevalidate(r)
    \/ \E r \in Reqs : Md5CachePut(r)
    \/ \E r \in Reqs : AddTrailingSlashIfNoExtensionAndNotFound(r)
    \/ \E r \in Reqs : AddHtmlIfNoExtensionAndNotFound(r)
    \/ \E r \in Reqs : TryIndexOnNotFound(r)
    \/ \E r \in Reqs : ReverseProxy(r)
    \/ Tick

SpecRepeat == InitRepeat /\ [][NextRepeat]_vars

\* requests of every kind of host handled one after the other, against a
\* container that does not change while they are; clients may go away

\* hosts: the base domain without and with a port, one label more, two
\* labels more, another domain
RouteHosts ==
    { BaseDomain,
      BaseDomain \o <<":", "3000">>,
      <<"app", Dot>> \o BaseDomain,
      <<"x", Dot, "y", Dot>> \o BaseDomain,
      <<"other", Dot, "org">> }

\* an asset of the page
DotJs == <<Dot, "js">>

RouteRequests ==
    { [method |-> "GET", host |-> h, path |-> <<Slash, "foo">>] : h \in RouteHosts }
    \cup { [method |-> "GET", host |-> BaseDomain, path |-> <<Slash, "foo">> \o DotJs] }

\* the page as a plain object, as a .html object and as a directory's index,
\* and its asset
RoutePage == joinURLPath(TargetPath, <<Slash>> \o DefaultEnv \o <<Slash, "foo">>)
RouteBlobs ==
    (RoutePage :> [exists |-> TRUE, md5 |-> <<"m1">>, body |-> "b1"])
    @@ (RoutePage \o DotHtml :> [exists |-> TRUE, md5 |-> <<"m2">>, body |-> "b2"])
    @@ (RoutePage \o IndexHtml :> [exists |-> TRUE, md5 |-> <<"m3">>, body |-> "b3"])
    @@ (RoutePage \o DotJs :> [exists |-> TRUE, md5 |-> <<"m4">>, body |-> "b4"])

\* the containers: each of the four objects is there or not
RouteBackends ==
    { f \in [DOMAIN RouteBlobs -> {Absent} \cup {RouteBlobs[bp] : bp \in DOMAIN RouteBlobs}] :
        \A bp \in DOMAIN RouteBlobs : f[bp] \in {Absent, RouteBlobs[bp]} }

InitRoute ==
    /\ cache = NewMd5ResponseCache
    /\ backend \in RouteBackends
    /\ now = 0
    /\ req = [r \in Reqs |-> IdleReq]
    /\ crashed = FALSE
    /\ joined = Nil
    /\ dest = Nil
    /\ outbound = Nil

NextRoute ==
    \/ \E q \in RouteRequests : SubdomainAsSubpath(1, q.method, q.host, q.path)
    \/ Md5CacheGet(1)
    \/ Md5CacheRevalidate(1)
    \/ Md5CachePut(1)
    \/ AddTrailingSlashIfNoExtensionAndNotFound(1)
    \/ AddHtmlIfNoExtensionAndNotFound(1)
    \/ TryIndexOnNotFound(1)
    \/ ReverseProxy(1)
    \/ ClientGone(1)
    \/ Tick

SpecRoute == InitRoute /\ [][NextRoute]_vars

\* joinURLPath on its own, for every pair of paths of at most MaxLen tokens
JoinPaths == UNION {[1..n -> {Slash, "a", "b"}] : n \in 0..MaxLen}

InitJoin ==
    /\ cache = NewMd5ResponseCache
    /\ backend = [p \in ObjPaths |-> Absent]
    /\ now = 0
    /\ req = [r \in Reqs |-> IdleReq]
    /\ crashed = FALSE
    /\ joined \in [a : JoinPaths, b : JoinPaths, done : {FALSE}, path : {<< >>}]
    /\ dest = Nil
    /\ outbound = Nil

\* urlCopy.Path, urlCopy.RawPath = joinURLPath(a, b)
JoinURLPath ==
    /\ joined # Nil
    /\ ~joined.done
    /\ joined' = [joined EXCEPT !.done = TRUE,
                                 !.path = joinURLPath(joined.a, joined.b)]
    /\ UNCHANGED <<cache, backend, now, req, crashed, dest, outbound>>

NextJoin == JoinURLPath

SpecJoin == InitJoin /\ [][NextJoin]_vars

\* WriteTo on its own, for every capture buffer of at most MaxVals values a
\* header
HeaderNames == {"Content-Md5", "Vary"}

HeaderValues == {"v1", "v2"}

\* an http.Header: the values of each name in insertion order, << >> for a
\* name that was never added
Headers == [HeaderNames -> UNION {[1..n -> HeaderValues] : n \in 0..MaxVals}]

NoHeaders == [k \in HeaderNames |-> << >>]

\* the capture buffers after the inner handler wrote its response to them
CaptureBuffers ==
    [kind : {"CachedResponseWriter", "StatusRecorderResponseWriter"},
     StatusCode : {200, 404},
     header : Headers,
     Buffer : {"", "b1"}]

\* the client's http.ResponseWriter before anything was written to it
\* header is its header map, sent the headers that went out with the status
\* line, calls the calls made on it
NewResponseWriter ==
    [header |-> NoHeaders, wroteHeader |-> FALSE, status |-> 0,
     sent |-> NoHeaders, body |-> << >>, calls |-> << >>]

\* res.Header().Add(k, s)
HeaderAdd(res, k, s) ==
    [res EXCEPT !.header[k] = Append(@, s), !.calls = Append(@, "Add")]

\* for _, s := range v { res.Header().Add(k, s) }
RECURSIVE AddValues(_, _, _)
AddValues(res, k, v) ==
    IF v = << >> THEN res
    ELSE AddValues(HeaderAdd(res, k, Head(v)), k, Tail(v))

\* for k, v := range srrw.header { ... }; the names come in any order, which
\* makes no difference to the header map it builds
RECURSIVE AddHeaders(_, _, _)
AddHeaders(res, header, names) ==
    IF names = {} THEN res
    ELSE LET k == CHOOSE n \in names : TRUE
         IN AddHeaders(AddValues(res, k, header[k]), header, names \ {k})

\* res.WriteHeader(code): the status line goes out with the headers the map
\* holds at that moment; later changes of the map reach nobody
ResWriteHeader(res, code) ==
    IF res.wroteHeader THEN [res EXCEPT !.calls = Append(@, "WriteHeader")]
    ELSE [res EXCEPT !.wroteHeader = TRUE, !.status = code,
                     !.sent = res.header, !.calls = Append(@, "WriteHeader")]

\* res.Write(bytes), which sends status 200 first when no status went out
ResWrite(res, bytes) ==
    LET res1 == IF res.wroteHeader THEN res
                ELSE [res EXCEPT !.wroteHeader = TRUE, !.status = 200,
                                 !.sent = res.header]
    IN [res1 EXCEPT !.body = Append(@, bytes), !.calls = Append(@, "Write")]

\* func (srrw CachedResponseWriter) WriteTo(res http.ResponseWriter) error
CachedResponseWriterWriteTo(srrw, res) ==
    ResWrite(ResWriteHeader(AddHeaders(res, srrw.header, HeaderNames),
                            srrw.StatusCode),
             srrw.Buffer)

\* func (srrw StatusRecorderResponseWriter) WriteTo(res http.ResponseWriter) error
StatusRecorderResponseWriterWriteTo(srrw, res) ==
    ResWrite(AddHeaders(ResWriteHeader(res, srrw.StatusCode), srrw.header,
                        HeaderNames),
             srrw.Buffer)

InitFlush ==
    /\ cache = NewMd5ResponseCache
    /\ backend = [p \in ObjPaths |-> Absent]
    /\ now = 0
    /\ req = [r \in Reqs |-> IdleReq]
    /\ crashed = FALSE
    /\ joined = Nil
    /\ dest \in [srrw : CaptureBuffers, res : {NewResponseWriter}, done : {FALSE}]
    /\ outbound = Nil

\* innerRes.WriteTo(res), cachedRes.WriteTo(res)
CachedWriteTo ==
    /\ dest # Nil
    /\ ~dest.done
    /\ dest.srrw.kind = "CachedResponseWriter"
    /\ dest' = [dest EXCEPT !.done = TRUE,
                            !.res = CachedResponseWriterWriteTo(dest.srrw, dest.res)]
    /\ UNCHANGED <<cache, backend, now, req, crashed, joined, outbound>>

\* statusWriter.WriteTo(res)
StatusRecorderWriteTo ==
    /\ dest # Nil
    /\ ~dest.done
    /\ dest.srrw.kind = "StatusRecorderResponseWriter"
    /\ dest' = [dest EXCEPT !.done = TRUE,
                            !.res = StatusRecorderResponseWriterWriteTo(dest.srrw, dest.res)]
    /\ UNCHANGED <<cache, backend, now, req, crashed, joined, outbound>>

NextFlush ==
    \/ CachedWriteTo
    \/ StatusRecorderWriteTo

SpecFlush == InitFlush /\ [][NextFlush]_vars

\* the director on its own, for a few targets and inbound requests
Amp == "&"

\* target *url.URL
Targets ==
    [Scheme : {"http", "https"},
     Host : {"account.blob.core.windows.net", "localhost:10000"},
     Path : {<< >>, TargetPath},
     RawQuery : {<< >>, <<"sv=1">>}]

\* req.Header["User-Agent"]: whether the key is there, and its value
UserAgents ==
    { [ok |-> FALSE, value |-> ""],
      [ok |-> TRUE, value |-> ""],
      [ok |-> TRUE, value |-> "curl"] }

\* the requests the director is handed: the URL of a request a server
\* received has neither scheme nor host
Inbound ==
    [Scheme : {""},
     Host : {""},
     Path : {<<Slash, "foo">>, <<"app", Dot>>},
     RawQuery : {<< >>, <<"a=1">>, <<"a=1", Amp, "b=2">>},
     UserAgent : UserAgents,
     ReqHost : {"example.com"}]

\* a director that puts "&" between the queries whatever they are
directorAlwaysAmp(target, q) ==
    [Scheme |-> target.Scheme,
     Host |-> target.Host,
     Path |-> joinURLPath(target.Path, q.Path),
     RawQuery |-> target.RawQuery \o <<Amp>> \o q.RawQuery,
     UserAgent |-> IF ~q.UserAgent.ok THEN [ok |-> TRUE, value |-> ""]
                   ELSE q.UserAgent,
     ReqHost |-> target.Host]

\* director := func(req *http.Request) of NewStorageContainerReverseProxy
director(target, q) ==
    [Scheme |-> target.Scheme,
     Host |-> target.Host,
     Path |-> joinURLPath(target.Path, q.Path),
     RawQuery |-> IF target.RawQuery = << >> \/ q.RawQuery = << >>
                  THEN target.RawQuery \o q.RawQuery
                  ELSE target.RawQuery \o <<Amp>> \o q.RawQuery,
     UserAgent |-> IF ~q.UserAgent.ok THEN [ok |-> TRUE, value |-> ""]
                   ELSE q.UserAgent,
     ReqHost |-> target.Host]

InitDirector ==
    /\ cache = NewMd5ResponseCache
    /\ backend = [p \in ObjPaths |-> Absent]
    /\ now = 0
    /\ req = [r \in Reqs |-> IdleReq]
    /\ crashed = FALSE
    /\ joined = Nil
    /\ dest = Nil
    /\ outbound \in [target : Targets, in : Inbound, done : {FALSE}, out : {Nil}]

\* the reverse proxy calls its Director on the outbound copy of the request
DirectorCall ==
    /\ outbound # Nil
    /\ ~outbound.done
    /\ outbound' = [outbound EXCEPT !.done = TRUE,
                                     !.out = director(outbound.target, outbound.in)]
    /\ UNCHANGED <<cache, backend, now, req, crashed, joined, dest>>

NextDirector == DirectorCall

SpecDirector == InitDirector /\ [][NextDirector]_vars

\* ------------------------------------------------------------------ claims

\* request r took the step that leaves stage pc
Leaves(r, pc) == req[r].pc = pc /\ req'[r].pc # pc

\* the entry the GET map holds for key k: Nil when the key is not there or
\* was set to nil
GetEntry(c, k) == MapGet(c["GET"].map, k)

\* the entries of the cache, as <<method, key>> pairs
Entries ==
    {mk \in Methods \X UNION {DOMAIN cache[m].map : m \in Methods} :
        MapGet(cache[mk[1]].map, mk[2]) # Nil}

\* C1: every entry of the cache is an entry of method GET, made from a
\* response that carried exactly one Content-Md5 value, whose value is the
\* entry's checksum; no other store leaves an entry.
C1_OnlyGetWithOneChecksumCached ==
    \A mk \in Entries :
        LET e == MapGet(cache[mk[1]].map, mk[2])
        IN /\ mk[1] = "GET"
           /\ Len(e.value.md5) = 1
           /\ e.md5 = e.value.md5[1]

\* C2: a lookup of a GET key whose entry was stored or last validated less
\* than entryLifetime ago ends the request with the stored response, sends
\* nothing to the backend and leaves the cache as it is.
C2_FreshHit ==
    [][\A r \in Reqs :
        LET e == GetEntry(cache, req[r].path)
        IN (/\ Leaves(r, "md5cache")
            /\ req[r].method = "GET"
            /\ e # Nil
            /\ now - e.checked < EntryLifetime)
           => /\ req'[r].pc = "done"
              /\ req'[r].out = e.value
              /\ req'[r].heads = 0
              /\ req'[r].gets = 0
              /\ cache' = cache]_vars

\* a request was answered from a fresh entry, without any backend call
C2_Witness ==
    \E r \in Reqs :
        /\ req[r].pc = "done"
        /\ req[r].served = "fresh"
        /\ req[r].heads = 0
        /\ req[r].gets = 0
        /\ req[r].out.status = 200
        /\ GetEntry(cache, req[r].key) # Nil
        /\ GetEntry(cache, req[r].key).value = req[r].out

\* C3: a lookup of an entry at least entryLifetime old sends exactly one
\* HEAD; when the checksum it brings equals the entry's, the lookup ends the
\* request with the cached response, no other backend call was made, and the
\* entry (while the map still holds it) has checked = now, so that it is
\* fresh for a lookup that follows at once.
C3_StaleHitMatching ==
    [][\A r \in Reqs :
        LET e == GetEntry(cache, req[r].path)
            held == req[r].r
            after == GetEntry(cache', req[r].key)
        IN /\ (/\ Leaves(r, "md5cache")
               /\ req[r].method = "GET"
               /\ e # Nil
               /\ now - e.checked >= EntryLifetime)
              => /\ req'[r].pc = "md5probe"
                 /\ req'[r].heads = 1
                 /\ req'[r].gets = 0
                 /\ req'[r].out = Nil
                 /\ cache' = cache
           /\ (/\ Leaves(r, "md5probe")
               /\ ~req'[r].probe.err
               /\ req'[r].probe.md5 = held.md5)
              => /\ req'[r].pc = "done"
                 /\ req'[r].out = held.value
                 /\ req'[r].heads = 1
                 /\ req'[r].gets = 0
                 /\ req[r].attached =>
                      /\ after # Nil
                      /\ after.md5 = held.md5
                      /\ after.value = held.value
                      /\ after.checked = now
                      /\ now - after.checked < EntryLifetime]_vars

\* a stale entry was revalidated: the request ended with the cached
\* response after one HEAD, and the entry is older than its checked time
C3_Witness ==
    \E r \in Reqs :
        /\ req[r].pc = "done"
        /\ req[r].served = "revalidated"
        /\ req[r].heads = 1
        /\ req[r].gets = 0
        /\ now >= EntryLifetime
        /\ GetEntry(cache, req[r].key) # Nil
        /\ GetEntry(cache, req[r].key).checked = now
        /\ GetEntry(cache, req[r].key).value = req[r].out

\* C4: when the probe of a stale entry brings another checksum than the
\* entry's, the map slot of the key is set to nil and the lookup is a miss
\* that goes on to the backend; a lookup that finds the slot nil is a miss
\* too and returns nothing of the cache; and the slot stays nil until a
\* cache.put for that key stores an entry.
C4_StaleHitDiffering ==
    [][/\ \A r \in Reqs :
            /\ (/\ Leaves(r, "md5probe")
                /\ ~req'[r].probe.err
                /\ req'[r].probe.md5 # req[r].r.md5)
               => /\ req[r].key \in DOMAIN cache'["GET"].map
                  /\ GetEntry(cache', req[r].key) = Nil
                  /\ req'[r].served = "miss"
                  /\ req'[r].out = Nil
                  /\ req'[r].pc = NextStage("md5cache")
            /\ (/\ Leaves(r, "md5cache")
                /\ req[r].method = "GET"
                /\ GetEntry(cache, req[r].path) = Nil)
               => /\ req'[r].served = "miss"
                  /\ req'[r].out = Nil
                  /\ req'[r].pc = NextStage("md5cache")
                  /\ GetEntry(cache', req[r].path) = Nil
       /\ \A k \in DOMAIN cache["GET"].map :
            (GetEntry(cache, k) = Nil /\ GetEntry(cache', k) # Nil)
               => \E r \in Reqs : /\ req[r].pc = "md5put"
                                  /\ req'[r].pc = "done"
                                  /\ req'[r].putkey = k]_vars

\* a probe brought another checksum: the slot is nil and the request that
\* saw it goes on as a miss
C4_Witness ==
    \E r \in Reqs :
        /\ req[r].pc = NextStage("md5cache")
        /\ req[r].served = "miss"
        /\ req[r].probe # Nil
        /\ ~req[r].probe.err
        /\ req[r].key \in DOMAIN cache["GET"].map
        /\ GetEntry(cache, req[r].key) = Nil

\* C5 as claimed: when the probe of a stale entry fails, the lookup sets the
\* slot to nil and is a miss, returning nothing of the cache.
C5_FailedProbeInvalidates ==
    [][\A r \in Reqs :
        (/\ Leaves(r, "md5probe")
         /\ req'[r].probe.err)
        => /\ GetEntry(cache', req[r].key) = Nil
           /\ req'[r].served = "miss"
           /\ req'[r].out = Nil]_vars

\* C5 as amended: when the probe of a stale entry fails (the transport, or
\* no single Content-Md5 value in the answer), the lookup ends the request
\* with the cached response and leaves the cache as it is: the entry is
\* neither invalidated nor revalidated.
C5_FailedProbeServesCached ==
    [][\A r \in Reqs :
        (/\ Leaves(r, "md5probe")
         /\ req'[r].probe.err)
        => /\ req'[r].pc = "done"
           /\ req'[r].out = req[r].r.value
           /\ req'[r].heads = 1
           /\ req'[r].gets = 0
           /\ cache' = cache]_vars

\* a probe failed and the request was answered from the entry, which is
\* still in the map and still stale
C5_Witness ==
    \E r \in Reqs :
        /\ req[r].pc = "done"
        /\ req[r].served = "unchecked"
        /\ req[r].probe.err
        /\ GetEntry(cache, req[r].key) # Nil
        /\ GetEntry(cache, req[r].key).value = req[r].out
        /\ now - GetEntry(cache, req[r].key).checked >= EntryLifetime

\* the handler of request r is running
InFlight(r) == req[r].pc \notin {"idle", "done", "panicked"}

\* the backend URL path the reverse proxy fetched for request r, once it
\* has: nothing rewrites the path after the fetch
Fetched(r) == joinURLPath(TargetPath, req[r].path)

\* C6: for a request that looked its key up, fetched from the backend and
\* stored the answer, the key of the lookup and the key of the store both
\* name the backend path the reverse proxy fetched.
C6_CacheKeyIsBackendPath ==
    \A r \in Reqs :
        (req[r].pc = "done" /\ req[r].served = "miss" /\ req[r].gets = 1)
        => /\ joinURLPath(TargetPath, req[r].key) = Fetched(r)
           /\ joinURLPath(TargetPath, req[r].putkey) = Fetched(r)

\* C7: the cache lookup comes after the fallback middlewares and right
\* before the reverse proxy: a request that missed the cache is at the
\* proxy or back from it, and its path is still the one that was looked up.
C7_LookupAfterFallbacks ==
    \A r \in Reqs :
        (InFlight(r) /\ req[r].served = "miss")
        => /\ req[r].pc \in {"proxy", "md5put"}
           /\ req[r].path = req[r].key

\* the answer to request r is not the proxy's report of a failed request
\* to the backend (500 of a fallback's probe, 502 of the reverse proxy)
BackendAnswered(r) == req[r].out.status \notin {500, 502}

\* C8: when the first of a sequence of identical GETs was answered with a
\* blob that carries a checksum, every later one answered within the
\* freshness window of the first, with the backend reachable, gets the same
\* response and sends no GET to the backend.
C8_IdempotentWithinWindow ==
    \A r \in Reqs \ {1} :
        (/\ req[1].pc = "done"
         /\ req[1].method = "GET"
         /\ req[1].out.status = 200
         /\ Len(req[1].out.md5) = 1
         /\ req[r].pc = "done"
         /\ BackendAnswered(r)
         /\ now < EntryLifetime)
        => /\ req[r].out = req[1].out
           /\ req[r].gets = 0

\* C9: of the requests being handled that missed the cache on the same key,
\* at most one has sent its GET to the backend.
C9_SingleFlight ==
    \A r1, r2 \in Reqs :
        (/\ r1 # r2
         /\ InFlight(r1) /\ InFlight(r2)
         /\ req[r1].served = "miss" /\ req[r2].served = "miss"
         /\ req[r1].method = "GET" /\ req[r2].method = "GET"
         /\ req[r1].key = req[r2].key)
        => req[r1].gets + req[r2].gets <= 1

\* request r is between its lookup of the cache and its store
InLookupStore(r) ==
    \/ req[r].pc = "md5probe"
    \/ InFlight(r) /\ req[r].served = "miss"

\* C10: no two requests are inside the cache for the same key at once: the
\* runtime never finds two overlapping accesses of the map, and no request
\* starts its lookup of a key while another is between its lookup and its
\* store of that key.
C10_SynchronisedCacheAccess ==
    /\ ~crashed
    /\ \A r1, r2 \in Reqs :
         (r1 # r2 /\ InLookupStore(r1) /\ InLookupStore(r2))
         => req[r1].key # req[r2].key

\* the host of request r, without its port
HostOf(r) == StripPort(req[r].host)

\* the host of request r is one label and a dot in front of the base domain
OneLabel(r) ==
    /\ Len(HostOf(r)) = Len(BaseDomain) + 2
    /\ HostOf(r)[1] # Dot
    /\ HostOf(r)[2] = Dot
    /\ HasSuffix(HostOf(r), BaseDomain)

\* the host of request r ends with the base domain and has as many dots
SameDots(r) ==
    /\ HasSuffix(HostOf(r), BaseDomain)
    /\ Count(HostOf(r), Dot) = Count(BaseDomain, Dot)

\* the host of request r does not end with the base domain, or has more than
\* one label more
Rejected(r) ==
    \/ ~HasSuffix(HostOf(r), BaseDomain)
    \/ Count(HostOf(r), Dot) > Count(BaseDomain, Dot) + 1

\* C11: a request whose host is one label L in front of the base domain
\* reaches the handler after SubdomainAsSubpath with the path "/" + L + the
\* path it came with.
C11_SubdomainBecomesPrefix ==
    \A r \in Reqs :
        (req[r].pc = NextStage("subdomain") /\ OneLabel(r))
        => req[r].path = <<Slash, HostOf(r)[1]>> \o req[r].uri

\* C12: a request whose host has the dots of the base domain and ends with
\* it is forwarded: it reaches the handler after SubdomainAsSubpath with the
\* path "/" + the default environment + the path it came with, nothing
\* answered, nothing asked of the backend or the cache; and it is never
\* answered by SubdomainAsSubpath itself.
C12_BaseDomainGetsDefaultEnv ==
    \A r \in Reqs :
        /\ (req[r].pc = NextStage("subdomain") /\ SameDots(r))
           => /\ req[r].path = <<Slash>> \o DefaultEnv \o req[r].uri
              /\ req[r].out = Nil
              /\ req[r].served = "none"
              /\ req[r].heads = 0
              /\ req[r].gets = 0
        /\ (req[r].pc = "done" /\ SameDots(r)) => req[r].served # "none"

\* a request to the base domain and a port stands in front of Md5Cache with
\* the default environment in its path
C12_Witness ==
    \E r \in Reqs :
        /\ req[r].pc = NextStage("subdomain")
        /\ req[r].host = BaseDomain \o <<":", "3000">>
        /\ req[r].uri = <<Slash, "foo">>
        /\ req[r].path = <<Slash>> \o DefaultEnv \o <<Slash, "foo">>

\* C13: a request whose host does not end with the base domain, or has more
\* than one label more, is answered 500 by SubdomainAsSubpath: no handler
\* runs after it, so the cache is neither looked up nor stored to and the
\* backend is not called, and the path is the one the request came with.
C13_RoutingRejection ==
    \A r \in Reqs :
        (req[r].pc # "idle" /\ Rejected(r))
        => /\ req[r].pc = "done"
           /\ req[r].out.status = 500
           /\ req[r].path = req[r].uri
           /\ req[r].served = "none"
           /\ req[r].putkey = << >>
           /\ req[r].heads = 0
           /\ req[r].gets = 0

\* a request of a host with two labels more was answered 500 without a
\* call of the backend
C13_Witness ==
    \E r \in Reqs :
        /\ req[r].pc = "done"
        /\ Count(HostOf(r), Dot) = Count(BaseDomain, Dot) + 2
        /\ HasSuffix(HostOf(r), BaseDomain)
        /\ req[r].out.status = 500
        /\ req[r].gets = 0

\* the backend URL path of the path request r came with, in the default
\* environment
PageOf(r) == joinURLPath(TargetPath, <<Slash>> \o DefaultEnv \o req[r].uri)

\* the container holds an object at backend path bp
Has(bp) == ObjectAt(bp).exists

\* a path without extension that does not end in "/"
Plain(path) == ~HasSuffix(path, <<Slash>>) /\ Ext(path) = << >>

\* request r is a GET of a plain path to the base domain that was answered:
\* the backend answered every call and the response was written to the
\* client
AnsweredPlainGet(r) ==
    /\ req[r].pc = "done"
    /\ req[r].method = "GET"
    /\ SameDots(r)
    /\ Plain(req[r].uri)
    /\ req[r].flush = "ok"
    /\ BackendAnswered(r)

\* the response made of the object at backend path bp
ResponseOf(bp) ==
    [status |-> 200, md5 |-> ObjectAt(bp).md5, body |-> ObjectAt(bp).body]

\* C14: a GET of a plain path P, when the container holds nothing at P and
\* at P/index.html and an object at P.html, is answered with the status,
\* headers and body of P.html itself (200, not a redirect).
C14_HtmlFallback ==
    \A r \in Reqs :
        (/\ AnsweredPlainGet(r)
         /\ ~Has(PageOf(r))
         /\ ~Has(PageOf(r) \o IndexHtml)
         /\ Has(PageOf(r) \o DotHtml))
        => req[r].out = ResponseOf(PageOf(r) \o DotHtml)

\* /foo was answered with foo.html after the index.html probe found nothing
\* and the .html probe found the object
C14_Witness ==
    \E r \in Reqs :
        /\ AnsweredPlainGet(r)
        /\ ~Has(PageOf(r))
        /\ ~Has(PageOf(r) \o IndexHtml)
        /\ Has(PageOf(r) \o DotHtml)
        /\ req[r].out.body = RouteBlobs[PageOf(r) \o DotHtml].body
        /\ req[r].tried = << [mw |-> "trailing", found |-> FALSE],
                             [mw |-> "html", found |-> TRUE] >>
        /\ req[r].gets = 1

\* C15 as claimed: a GET of a plain path D, when the container holds nothing
\* at D and at D.html and an object at D/index.html, is answered with
\* D/index.html after two fallback attempts: the .html attempt, which finds
\* nothing, then the index.html attempt, which finds the object.
C15_DirectoryAfterHtmlAttempt ==
    \A r \in Reqs :
        (/\ AnsweredPlainGet(r)
         /\ ~Has(PageOf(r))
         /\ ~Has(PageOf(r) \o DotHtml)
         /\ Has(PageOf(r) \o IndexHtml))
        => /\ req[r].out = ResponseOf(PageOf(r) \o IndexHtml)
           /\ req[r].tried = << [mw |-> "html", found |-> FALSE],
                                [mw |-> "trailing", found |-> TRUE] >>

\* C15 as amended: the same request is answered with D/index.html after one
\* fallback attempt: the index.html attempt comes first and finds the
\* object, and the .html attempt is not made.
C15_DirectoryFallback ==
    \A r \in Reqs :
        (/\ AnsweredPlainGet(r)
         /\ ~Has(PageOf(r))
         /\ ~Has(PageOf(r) \o DotHtml)
         /\ Has(PageOf(r) \o IndexHtml))
        => /\ req[r].out = ResponseOf(PageOf(r) \o IndexHtml)
           /\ req[r].tried = << [mw |-> "trailing", found |-> TRUE] >>
           /\ req[r].path = <<Slash>> \o DefaultEnv \o req[r].uri \o IndexHtml

\* /foo was answered with foo/index.html
C15_Witness ==
    \E r \in Reqs :
        /\ AnsweredPlainGet(r)
        /\ req[r].served = "miss"
        /\ ~Has(PageOf(r))
        /\ ~Has(PageOf(r) \o DotHtml)
        /\ Has(PageOf(r) \o IndexHtml)
        /\ req[r].out.body = RouteBlobs[PageOf(r) \o IndexHtml].body
        /\ req[r].gets = 1

\* C16: a request sends the backend a bounded number of calls, each fallback
\* probing its candidate at most once; and a request that SubdomainAsSubpath
\* forwarded, when the container holds no object and the backend answered
\* every call, ends with the backend's 404 written to the client.
C16_BoundedFallbackAnd404 ==
    \A r \in Reqs :
        /\ req[r].heads <= 6
        /\ req[r].gets <= 1
        /\ \A i, j \in 1..Len(req[r].tried) :
              req[r].tried[i].mw = req[r].tried[j].mw => i = j
        /\ (/\ req[r].pc \in {"done", "panicked"}
            /\ ~Rejected(r)
            /\ ~req[r].failed
            /\ req[r].conn = "open"
            /\ \A bp \in DOMAIN backend : ~Has(bp)
            /\ (req[r].out = Nil \/ req[r].out.status # 502))
           => /\ req[r].pc = "done"
              /\ req[r].out.status = 404

\* the cache holds the same entries in cache c1 and in cache c2
SameEntries(c1, c2) ==
    \A m \in Methods :
        \A k \in (DOMAIN c1[m].map) \cup (DOMAIN c2[m].map) :
            MapGet(c1[m].map, k) = MapGet(c2[m].map, k)

\* C17: when a CheckUrlExists of a fallback returns an error, the fallback
\* writes 500 and returns to Md5Cache: the path is not rewritten, no later
\* fallback and no proxy fetch runs, the client is written status 500, and
\* the cache holds the same entries after the request as before.
C17_ProbeFailure ==
    [][\A r \in Reqs :
        /\ (/\ req[r].pc \in {"trailing", "html", "index"}
            /\ req'[r].failed)
           => /\ req'[r].pc = "md5put"
              /\ req'[r].inner.status = 500
              /\ req'[r].path = req[r].path
              /\ req'[r].gets = 0
              /\ cache' = cache
        /\ (Leaves(r, "md5put") /\ req[r].failed)
           => /\ req'[r].pc = "done"
              /\ req'[r].out.status = 500
              /\ req'[r].gets = 0
              /\ SameEntries(cache, cache')]_vars

\* a request ended in 500 after a failed probe while the cache held an entry
C17_Witness ==
    \E r \in Reqs :
        /\ req[r].pc = "done"
        /\ req[r].failed
        /\ req[r].out.status = 500
        /\ req[r].gets = 0
        /\ Entries # {}

\* C18: no error of the write of the response to the client is discarded:
\* the handler reports and logs every one.
C18_FlushFailureReported ==
    \A r \in Reqs : req[r].flush # "dropped"

\* C19: for paths a and b that are not both empty, the joined path is a
\* without one "/" at its end, one "/", and b without one "/" at its start:
\* one slash dropped when both have theirs, one inserted when neither has,
\* the two concatenated otherwise.
C19_JoinSingleSlash ==
    (joined # Nil /\ joined.done /\ ~(joined.a = << >> /\ joined.b = << >>))
    => LET a == joined.a
           b == joined.b
           aslash == a # << >> /\ a[Len(a)] = Slash
           bslash == b # << >> /\ b[1] = Slash
           a0 == IF aslash THEN SubSeq(a, 1, Len(a) - 1) ELSE a
           b0 == IF bslash THEN SubSeq(b, 2, Len(b)) ELSE b
       IN /\ joined.path = a0 \o <<Slash>> \o b0
          /\ Len(joined.path) = Len(a) + Len(b)
                + (IF aslash /\ bslash THEN -1
                   ELSE IF ~aslash /\ ~bslash THEN 1 ELSE 0)

\* "/a/" and "/b" were joined to "/a/b", and so were "/a" and "b"
C19_Witness ==
    /\ joined # Nil
    /\ joined.done
    /\ joined.path = <<Slash, "a", Slash, "b">>
    /\ \/ joined.a = <<Slash, "a", Slash>> /\ joined.b = <<Slash, "b">>
       \/ joined.a = <<Slash, "a">> /\ joined.b = <<"b">>

\* C20 as claimed: the empty path joined with the empty path is the empty
\* path.
C20_EmptyJoinIsEmpty ==
    (joined # Nil /\ joined.done /\ joined.a = << >> /\ joined.b = << >>)
    => joined.path = << >>

\* C20 as amended: the empty path joined with the empty path is "/", the
\* slash inserted between two paths of which neither has one.
C20_EmptyJoinIsSlash ==
    (joined # Nil /\ joined.done /\ joined.a = << >> /\ joined.b = << >>)
    => joined.path = <<Slash>>

\* the two empty paths were joined
C20_Witness ==
    /\ joined # Nil
    /\ joined.done
    /\ joined.a = << >>
    /\ joined.b = << >>
    /\ joined.path = <<Slash>>

\* the calls WriteTo makes on the client's writer for n header values
RECURSIVE FlushCalls(_)
FlushCalls(n) ==
    IF n = 0 THEN <<"WriteHeader", "Write">> ELSE <<"Add">> \o FlushCalls(n - 1)

\* the number of header values a capture buffer holds
RECURSIVE Recorded(_, _)
Recorded(header, names) ==
    IF names = {} THEN 0
    ELSE LET k == CHOOSE n \in names : TRUE
         IN Len(header[k]) + Recorded(header, names \ {k})

\* C21: nothing reaches the client's writer before WriteTo is called, and
\* WriteTo of either capture buffer first adds every recorded header value,
\* then writes the recorded status, then the recorded body, each once; the
\* client is sent every recorded value of every header in insertion order.
C21_FlushOrderAndHeaders ==
    dest # Nil =>
        /\ ~dest.done => dest.res = NewResponseWriter
        /\ dest.done =>
            /\ dest.res.calls = FlushCalls(Recorded(dest.srrw.header, HeaderNames))
            /\ dest.res.sent = dest.srrw.header
            /\ dest.res.status = dest.srrw.StatusCode
            /\ dest.res.body = <<dest.srrw.Buffer>>

\* C21 for the CachedResponseWriter alone
C21_CachedFlush ==
    (dest # Nil /\ dest.srrw.kind = "CachedResponseWriter")
    => C21_FlushOrderAndHeaders

\* ext := filepath.Ext(req.URL.Path); RedirectAssets redirects unless
\* ext == "" || ext == ".html"
Redirects(path) == Ext(path) \notin {<< >>, DotHtml}

\* C22: a forwarded request whose path has an extension RedirectAssets
\* redirects is answered 302 without any call to the backend.
C22_AssetRedirect ==
    \A r \in Reqs :
        (req[r].pc # "idle" /\ ~Rejected(r) /\ Redirects(req[r].uri))
        => /\ req[r].heads = 0
           /\ req[r].gets = 0
           /\ (req[r].pc = "done" /\ req[r].out # Nil) => req[r].out.status = 302

\* a request for the asset was answered 200 with the object the reverse
\* proxy fetched
C22_AssetProxied ==
    \E r \in Reqs :
        /\ req[r].pc = "done"
        /\ Redirects(req[r].uri)
        /\ req[r].out # Nil
        /\ req[r].out.status = 200
        /\ req[r].gets = 1

\* request r takes the step of TryIndexOnNotFound and the backend answers
\* the probe
IndexStep(r) == Leaves(r, "index") /\ ~req'[r].failed

\* the rule of C23 for the step request r takes
IndexRule(r) ==
    LET path == req[r].path
        notFound == ~Has(joinURLPath(TargetPath, path))
    IN /\ (req'[r].path # path) <=> (notFound /\ ~HasSuffix(path, IndexHtml))
       /\ (req'[r].path # path)
            => req'[r].path = SubSeq(path, 1, LastIndex(path, Slash)) \o IndexHtml
       /\ req'[r].pc = NextStage("index")

\* C23: TryIndexOnNotFound changes the path exactly when the backend reports
\* 404 for it and it does not end in "/index.html", the new path is the old
\* one up to its last "/" followed by "/index.html", and the next handler
\* is invoked with it.
C23_IndexRule ==
    [][\A r \in Reqs : IndexStep(r) => IndexRule(r)]_vars

\* C23 for the requests to the base domain alone
C23_IndexRuleBaseDomain ==
    [][\A r \in Reqs : (IndexStep(r) /\ SameDots(r)) => IndexRule(r)]_vars

\* C25: the path of every request SubdomainAsSubpath forwarded starts with
\* "/" as long as the request is with the middlewares behind it, and no
\* request ends in a panic of its handler.
C25_NoHandlerFault ==
    \A r \in Reqs :
        ~Rejected(r)
        => /\ InFlight(r) => HasPrefix(req[r].path, <<Slash>>)
           /\ req[r].pc # "panicked"

\* C25 without the paths: no request ends in a panic of its handler
C25_NoPanic == \A r \in Reqs : req[r].pc # "panicked"

\* C24: the request the director hands to the transport has the target's
\* scheme and host, the target's host as Host header, the joined path, the
\* two queries with "&" between them when neither is empty and one after the
\* other otherwise, and the client's User-Agent, or an empty one when the
\* client sent none.
C24_OutboundRewrite ==
    (outbound # Nil /\ outbound.done)
    => LET t == outbound.target
           q == outbound.in
           o == outbound.out
       IN /\ o.Scheme = t.Scheme
          /\ o.Host = t.Host
          /\ o.ReqHost = t.Host
          /\ o.Path = joinURLPath(t.Path, q.Path)
          /\ (t.RawQuery # << >> /\ q.RawQuery # << >>)
                => o.RawQuery = t.RawQuery \o <<Amp>> \o q.RawQuery
          /\ t.RawQuery = << >> => o.RawQuery = q.RawQuery
          /\ q.RawQuery = << >> => o.RawQuery = t.RawQuery
          /\ o.UserAgent.ok
          /\ o.UserAgent.value = IF q.UserAgent.ok THEN q.UserAgent.value ELSE ""

\* the director rewrote a request with a query for a target with a query,
\* and one of a client that sent no User-Agent for a target without query
C24_Witness ==
    /\ outbound # Nil
    /\ outbound.done
    /\ \/ /\ outbound.target.RawQuery = <<"sv=1">>
          /\ outbound.in.RawQuery = <<"a=1">>
          /\ outbound.out.RawQuery = <<"sv=1", Amp, "a=1">>
          /\ outbound.in.UserAgent = [ok |-> TRUE, value |-> "curl"]
          /\ outbound.out.UserAgent.value = "curl"
       \/ /\ outbound.target.RawQuery = << >>
          /\ outbound.in.RawQuery = <<"a=1">>
          /\ outbound.out.RawQuery = <<"a=1">>
          /\ ~outbound.in.UserAgent.ok
          /\ outbound.out.UserAgent = [ok |-> TRUE, value |-> ""]

\* the cache holds version V2 of the page under key k
HoldsV2(c, k) == GetEntry(c, k) # Nil /\ GetEntry(c, k).md5 = V2.md5[1]

\* C26: once the cache holds the entry of version V2 of the page, no step
\* of a request replaces it with the response and checksum of version V1.
C26_NoStaleOverwrite ==
    [][\A k \in DOMAIN cache["GET"].map :
          (HoldsV2(cache, k) /\ GetEntry(cache', k) # Nil)
          => GetEntry(cache', k).md5 = V2.md5[1]]_vars

====
